---- MODULE Spec2Model ----
(***************************************************************************)
(* Model of the analysis computations of the envelope_detector validation  *)
(* notebook (src/Demonstration.ipynb): the covariance estimator, the       *)
(* spatial-pattern loop, the spectral estimator and the gradient           *)
(* importance scorer.  Real numbers are exact rationals [num, den];        *)
(* float32 products are a reduced-precision binary format with             *)
(* round-to-nearest-even.                                                   *)
(***************************************************************************)
EXTENDS Integers, Sequences, FiniteSets, TLC

VARIABLES
    pc,                   \* position of the notebook cell being modelled
    data,                 \* data[b][c][t]: the signal, (batch, channel, time)
    unbiased,             \* covariance(): the unbiased flag
    mean,                 \* covariance(): the supplied mean, or None
    covariance_matrix,    \* covariance(): what the call produced
    spatial_filters,      \* spatial_filters[f][c]: the (feature, channel) weights
    temporal_filters,     \* temporal_filters[f]: the kernel of feature f
    nbatch,               \* the chunk count handed to create_spatial_patterns
    spatial_patterns,     \* what the spatial-pattern loop over x produced
    x_filtered,           \* the filtered signal the loop's last iteration left
    spatial_results_data, \* what create_spatial_patterns(data, ..., nbatch) produced
    x_unmixed,            \* the unmixed series of one feature (a row of x_unmixed)
    nyquist,              \* the nperseg and nfreq of the spectral cell
    welch_segments,       \* the detrended segments sg.welch averaged over
    input_frequencies,
    input_spectrum,
    frequencies_filter,
    temporal_filters_spectrum,
    temporal_patterns_spectrum,
    output_spectrum,
    raised,               \* the exception that ended the spectral cell, or "none"
    regressor,            \* regressor.weight: one weight per feature
    dataset,              \* [nexamples, batch_size, ntimes]: the scored dataset
    pass,                 \* which pass of the scorer over the dataset is running
    processed,            \* examples the running pass has consumed
    gradients_pt,         \* the running per-feature importance of the scorer
    importance_indices_pt,\* the order each finished pass returned
    returned_gradients,   \* the vector each finished pass returned
    z,                    \* z[b][t][f]: the pre-regressor activation of the dataset
    gradients_tf_,        \* tape.gradient(y_tf, z_tf) over the whole dataset
    gradients_tf          \* the importance of one pass over the whole dataset

covVars == <<unbiased, mean, covariance_matrix>>

spVars == <<spatial_filters, temporal_filters, nbatch, spatial_patterns,
            x_filtered, spatial_results_data>>

spectralVars == <<x_unmixed, nyquist, welch_segments, input_frequencies,
                  input_spectrum, frequencies_filter, temporal_filters_spectrum,
                  temporal_patterns_spectrum, output_spectrum, raised>>

importanceVars == <<regressor, dataset, pass, processed, gradients_pt,
                    importance_indices_pt, returned_gradients, z, gradients_tf_,
                    gradients_tf>>

vars == <<pc, data, covVars, spVars, spectralVars, importanceVars>>

(* ------------------------------ bounds -------------------------------- *)

\* longest time axis of one batch element
MaxT == 2

\* sample values a signal is drawn from
Samples == {0, 1}

\* nchannels of the modelled signals
Channels == {1, 2}

\* batch elements of the covariance estimator's input
CovBatch == {1, 2}

\* batch sizes of the signals handed to the spatial-pattern computations
BatchSizes == {1, 2}

\* most time samples (batch * time) of such a signal
MaxSamples == 4

\* most taps of a temporal kernel
MaxTaps == 3

\* nfeatures of the modelled filter banks
Features == {1, 2}

\* temporal kernels: the first k taps of one tap sequence, so that one tap,
\* even and odd numbers of taps all occur
Taps == <<1, 2, -1, 1, -2, 1>>

Kernels == {SubSeq(Taps, 1, k) : k \in 1..MaxTaps}

\* rows of the spatial filter
FilterRows == {<<1, 0>>, <<1, -1>>}

\* spatial filters: one row per feature, the rows differing
SpatialFilterBanks == {sf \in [Features -> FilterRows] : sf[1] # sf[2]}

\* longest unmixed series of the spectral cell
MaxLen == 5

\* largest nyquist (nperseg, nfreq) of the spectral cell
MaxNfreq == 4

\* significant bits of the modelled floating-point format (float32 has 24)
MantissaBits == 3

\* amplitudes and densities an FFT or a periodogram may return
FloatVals == {3, 5}

\* fs = 1000
fs == 1000

\* features of the scored pipeline
ScoredFeatures == 1..3

\* weights of the regressor
Weights == -2..2

\* per-feature scales of the pre-regressor activation (an envelope, never negative)
ActivationVals == {0, 1}

\* most batches of a pass of the importance scorer
MaxBatches == 2

\* largest batch of the importance scorer
MaxBatchSize == 2

\* longest downsampled time axis of the pre-regressor activation
MaxTimes == 2

\* Python's None, where a sequence or a function may stand
None == <<>>

(* ------------------------------ helpers ------------------------------- *)

RECURSIVE SumTo(_, _)
\* sum of f[1] + ... + f[n]
SumTo(f, n) == IF n = 0 THEN 0 ELSE f[n] + SumTo(f, n - 1)

SumSeq(s) == SumTo(s, Len(s))

Abs(n) == IF n < 0 THEN -n ELSE n

\* Python's int(bool)
BoolInt(b) == IF b THEN 1 ELSE 0

\* exact rational num/den
Rat(n, d) == [num |-> n, den |-> d]

\* equality of two rationals with non-zero denominators
RatEq(p, q) == p.num * q.den = q.num * p.den

(* ------------------------ covariance estimator ------------------------ *)

\* torch.mean(x, dim=-1, keepdims=True): one mean per (batch, channel)
TimeMean(x) ==
    [b \in DOMAIN x |-> [c \in DOMAIN x[b] |-> Rat(SumSeq(x[b][c]), Len(x[b][c]))]]

\* a supplied mean of shape (channel, 1), broadcast over the batch axis
BroadcastMean(x, m) ==
    [b \in DOMAIN x |-> [c \in DOMAIN x[b] |-> Rat(m[c], 1)]]

\* x - mean, each entry over the mean's denominator
Centre(x, mu) ==
    [b \in DOMAIN x |-> [c \in DOMAIN x[b] |->
        [t \in DOMAIN x[b][c] |-> mu[b][c].den * x[b][c][t] - mu[b][c].num]]]

\* torch.einsum('...ct, ...Ct -> ...cC', x, x) scaled by 1 / scaleDen
ScaledGram(xc, mu, scaleDen) ==
    [b \in DOMAIN xc |-> [c \in DOMAIN xc[b] |-> [C \in DOMAIN xc[b] |->
        Rat(SumTo([t \in DOMAIN xc[b][c] |-> xc[b][c][t] * xc[b][C][t]],
                  Len(xc[b][c])),
            mu[b][c].den * mu[b][C].den * scaleDen)]]]

\* the time length x.shape[-1]
TimeLen(x) == Len(x[CHOOSE b \in DOMAIN x : TRUE][CHOOSE c \in Channels : TRUE])

\* a variant that centres with the mean pooled over batch and time
covariancePooledMean(x, unb, m) ==
    LET T  == TimeLen(x)
        nb == Cardinality(DOMAIN x)
        bs == CHOOSE s \in [1..nb -> DOMAIN x] : \A i, j \in 1..nb : i # j => s[i] # s[j]
        mu == [b \in DOMAIN x |-> [c \in DOMAIN x[b] |->
                 Rat(SumTo([i \in 1..nb |-> SumSeq(x[bs[i]][c])], nb), nb * T)]]
    IN  IF T - BoolInt(unb) = 0
        THEN [raised |-> "ZeroDivisionError", value |-> <<>>]
        ELSE [raised |-> "none",
              value  |-> ScaledGram(Centre(x, mu), mu, T - BoolInt(unb))]

\* a variant whose scale is a tensor division: x / 0 is inf or nan, never raised
covarianceTensorScale(x, unb, m) ==
    LET T  == TimeLen(x)
        mu == IF m = None THEN TimeMean(x) ELSE BroadcastMean(x, m)
    IN  [raised |-> "none",
         value  |-> ScaledGram(Centre(x, mu), mu, T - BoolInt(unb))]

\* a variant that ignores the unbiased flag and divides by the time length
covarianceBiased(x, unb, m) ==
    LET T  == TimeLen(x)
        mu == IF m = None THEN TimeMean(x) ELSE BroadcastMean(x, m)
    IN  [raised |-> "none", value |-> ScaledGram(Centre(x, mu), mu, T)]

\* def covariance(x, unbiased=True, mean=None)
covariance(x, unb, m) ==
    LET T  == TimeLen(x)
        mu == IF m = None THEN TimeMean(x) ELSE BroadcastMean(x, m)
        xc == Centre(x, mu)
    IN  \* 1 / (x.shape[-1] - unbiased) is evaluated on Python ints, before the einsum
        IF T - BoolInt(unb) = 0
        THEN [raised |-> "ZeroDivisionError", value |-> <<>>]
        ELSE [raised |-> "none", value |-> ScaledGram(xc, mu, T - BoolInt(unb))]

(* ------------------------- spatial patterns --------------------------- *)

\* a/b + c/d
RatAdd(p, q) == Rat(p.num * q.den + q.num * p.den, p.den * q.den)

RECURSIVE RatSumTo(_, _)
\* f[1] + ... + f[n] over rationals
RatSumTo(f, n) == IF n = 0 THEN Rat(0, 1) ELSE RatAdd(RatSumTo(f, n - 1), f[n])

RECURSIVE Concat(_, _)
\* s[1] \o ... \o s[n]
Concat(s, n) == IF n = 0 THEN <<>> ELSE Concat(s, n - 1) \o s[n]

\* x = einops.rearrange(data, 'b c t -> c (b t)')
Rearrange(d) ==
    [c \in Channels |-> Concat([b \in DOMAIN d |-> d[b][c]], Len(d))]

\* a padded read of s at position i: zero outside the signal
Padded(s, i) == IF i >= 1 /\ i <= Len(s) THEN s[i] ELSE 0

\* a same-padding that puts the extra sample of an odd total before the signal
LeftPadEarly(K) == (K - 1) - ((K - 1) \div 2)

\* padding='same' of torch's conv1d, dilation 1: the total padding is K - 1,
\* total // 2 of it before the signal and the rest after it
LeftPad(K) == (K - 1) \div 2

\* F.conv1d(s, w, bias=None, padding='same') on one channel (a cross-correlation)
Conv1dSame(s, w) ==
    [t \in 1..Len(s) |->
        SumTo([j \in 1..Len(w) |-> w[j] * Padded(s, t + j - 1 - LeftPad(Len(w)))],
              Len(w))]

\* conv1d with groups=nchannels and the kernel repeated '1 1 t -> c 1 t':
\* every channel of a (channel, time) signal is filtered with the same kernel
FilterChannels(x, w) == [c \in DOMAIN x |-> Conv1dSame(x[c], w)]

\* pattern = torch.einsum('...cC, Ck -> c', x_cov, spatial_filter)
Project(cov, sf) ==
    [c \in Channels |->
        RatSumTo([C \in Channels |-> Rat(cov[c][C].num * sf[C], cov[c][C].den)],
                 Cardinality(Channels))]

\* a loop body that reads the first feature's kernel whatever the feature
PatternRowFirstKernel(x, tfs, sfs, f) ==
    CHOOSE pattern \in
        {IF x_cov.raised # "none" THEN x_cov
         ELSE [raised |-> "none", value |-> Project(x_cov.value[1], sfs[f])] :
            x_cov \in {covariance(<<filtered>>, TRUE, None) :
                          filtered \in {FilterChannels(x, tfs[1])}}} : TRUE

\* one iteration of the loop of the spatial-pattern cell, for feature f
\* (each set of one binds an intermediate tensor once)
PatternRow(x, tfs, sfs, f) ==
    CHOOSE pattern \in
        {IF x_cov.raised # "none" THEN x_cov
         ELSE [raised |-> "none", value |-> Project(x_cov.value[1], sfs[f])] :
            x_cov \in {covariance(<<filtered>>, TRUE, None) :
                          filtered \in {FilterChannels(x, tfs[f])}}} : TRUE

\* the whole loop: for feature in range(nfeatures): spatial_patterns[feature] = pattern
PatternLoop(x, tfs, sfs) ==
    CHOOSE out \in
        {IF \E f \in DOMAIN tfs : rows[f].raised # "none"
         THEN [raised |-> "ZeroDivisionError", value |-> <<>>]
         ELSE [raised |-> "none", value |-> [f \in DOMAIN tfs |-> rows[f].value]] :
            rows \in {[f \in DOMAIN tfs |-> PatternRow(x, tfs, sfs, f)]}} : TRUE

\* the feature of the last iteration the loop ran: the first one when its
\* covariance raised (x_filtered is assigned before covariance is called),
\* the last of range(nfeatures) otherwise
LastFeature(out) == IF out.raised # "none" THEN 1 ELSE Cardinality(Features)

(* create_spatial_patterns(data, spatial_filters, temporal_filters, nbatch)  *)
(* is the envelope_detector package's; the notebook holds its call only.      *)
(* Modelled from the specification of the batched variant: the signal is     *)
(* split into nbatch chunks of whole batch elements, each chunk is filtered  *)
(* on its own and its moments are added to one running accumulator.          *)

\* the batch elements of chunk j of n equal chunks
ChunkOf(d, n, j) ==
    LET size == Len(d) \div n IN [i \in 1..size |-> d[(j - 1) * size + i]]

\* the moments one filtered batch element adds: count, sums, sums of products
Moments(y) ==
    [n |-> Len(y[CHOOSE c \in Channels : TRUE]),
     S |-> [c \in Channels |-> SumSeq(y[c])],
     Q |-> [c \in Channels |-> [C \in Channels |->
              SumTo([t \in DOMAIN y[c] |-> y[c][t] * y[C][t]], Len(y[c]))]]]

AddMoments(a, m) ==
    [n |-> a.n + m.n,
     S |-> [c \in Channels |-> a.S[c] + m.S[c]],
     Q |-> [c \in Channels |-> [C \in Channels |-> a.Q[c][C] + m.Q[c][C]]]]

ZeroMoments ==
    [n |-> 0, S |-> [c \in Channels |-> 0],
     Q |-> [c \in Channels |-> [C \in Channels |-> 0]]]

RECURSIVE ChunkMoments(_, _, _)
\* the moments of the first k batch elements of a chunk, each filtered on its own
ChunkMoments(chunk, w, k) ==
    IF k = 0 THEN ZeroMoments
    ELSE CHOOSE a \in {AddMoments(ChunkMoments(chunk, w, k - 1), Moments(y)) :
                          y \in {FilterChannels(chunk[k], w)}} : TRUE

RECURSIVE Accumulate(_, _, _, _)
\* the running accumulator after the first j of n chunks
Accumulate(d, w, n, j) ==
    IF j = 0 THEN ZeroMoments
    ELSE CHOOSE a \in {AddMoments(Accumulate(d, w, n, j - 1),
                                  ChunkMoments(chunk, w, Len(chunk))) :
                          chunk \in {ChunkOf(d, n, j)}} : TRUE

\* the unbiased covariance the accumulated moments give
MomentsCovariance(a) ==
    [c \in Channels |-> [C \in Channels |->
        Rat(a.n * a.Q[c][C] - a.S[c] * a.S[C], a.n * (a.n - 1))]]

create_spatial_patterns(d, sfs, tfs, n) ==
    CHOOSE out \in
        {IF \E f \in DOMAIN tfs : acc[f].n - 1 = 0
         THEN [raised |-> "ZeroDivisionError", value |-> <<>>]
         ELSE [raised |-> "none",
               value  |-> [f \in DOMAIN tfs |->
                              Project(MomentsCovariance(acc[f]), sfs[f])]] :
            acc \in {[f \in DOMAIN tfs |-> Accumulate(d, tfs[f], n, n)]}} : TRUE

\* signals of shape (batch, channel, time) over the batch index set B
(* -------------------------- spectral cell ----------------------------- *)

RECURSIVE Pow2(_)
Pow2(k) == IF k = 0 THEN 1 ELSE 2 * Pow2(k - 1)

RECURSIVE BitLen(_)
\* the number of bits of n >= 0
BitLen(n) == IF n = 0 THEN 0 ELSE 1 + BitLen(n \div 2)

\* n rounded to MantissaBits significant bits, to nearest, ties to even
RoundFloat(n) ==
    IF n < Pow2(MantissaBits) THEN n
    ELSE LET k    == BitLen(n) - MantissaBits
             q    == n \div Pow2(k)
             r    == n % Pow2(k)
             half == Pow2(k - 1)
         IN  IF r > half \/ (r = half /\ q % 2 = 1)
             THEN (q + 1) * Pow2(k) ELSE q * Pow2(k)

\* the product of two floats
FMul(a, b) == RoundFloat(a * b)

\* a variant that doubles where the code squares
SquareAsDouble(a) == FMul(2, a)

\* torch.pow(a, 2)
Square(a) == FMul(a, a)

\* the size two shapes broadcast to, 0 - 1 when they do not
BroadcastLen(n, m) ==
    IF n = m THEN n ELSE IF n = 1 THEN m ELSE IF m = 1 THEN n ELSE 0 - 1

\* the entry of s an output position k reads under broadcasting
At(s, k) == IF Len(s) = 1 THEN s[1] ELSE s[k]

\* torch.fft.fftfreq(n, d=1/fs): entry k (from 0) of the n frequencies
FftFreq(n, k) == IF k <= (n - 1) \div 2 THEN Rat(k * fs, n) ELSE Rat((k - n) * fs, n)

\* the |FFT| of a real kernel from its first n // 2 + 1 bins: bin k mirrors bin n - k
FftAmplitudes(half, n) ==
    [k \in 1..n |-> IF k - 1 <= n \div 2 THEN half[k] ELSE half[n - (k - 1) + 1]]

\* a variant that keeps nfreq // 2 + 1 bins
spectrumInclusive(amplitudes, nfreq) ==
    LET positive_freq == nfreq \div 2 + 1
    IN  [frequencies |-> [k \in 1..positive_freq |-> FftFreq(nfreq, k - 1)],
         amplitudes  |-> SubSeq(amplitudes, 1, positive_freq)]

\* def spectrum(signal, fs, nfreq), from the nfreq amplitudes of the FFT on
spectrum(amplitudes, nfreq) ==
    LET positive_freq == nfreq \div 2
    IN  [frequencies |-> [k \in 1..positive_freq |-> FftFreq(nfreq, k - 1)],
         amplitudes  |-> SubSeq(amplitudes, 1, positive_freq)]

(* sg.welch(x, fs=fs, nperseg=nyquist, detrend='constant', axis=-1): the     *)
(* defaults are window='hann', noverlap=None, nfft=None.                      *)

\* nperseg is cut to the length of the series when it is longer
WelchNperseg(T, nperseg) == IF nperseg > T THEN T ELSE nperseg

\* a variant whose segments do not overlap
WelchNoverlapZero(nperseg) == 0

\* noverlap=None: nperseg // 2
WelchNoverlap(nperseg) == nperseg \div 2

\* the number of segments and the (0-based) start of segment i
WelchStep(nperseg) == nperseg - WelchNoverlap(nperseg)

WelchCount(T, nperseg) == (T - WelchNoverlap(nperseg)) \div WelchStep(nperseg)

\* detrend='constant': the segment minus its own mean
Detrend(seg) ==
    [j \in 1..Len(seg) |-> Rat(Len(seg) * seg[j] - SumSeq(seg), Len(seg))]

WelchSegments(x, nperseg) ==
    LET n == WelchNperseg(Len(x), nperseg)
    IN  [i \in 1..WelchCount(Len(x), n) |->
            [start  |-> (i - 1) * WelchStep(n),
             values |-> Detrend(SubSeq(x, (i - 1) * WelchStep(n) + 1,
                                          (i - 1) * WelchStep(n) + n))]]

\* the one-sided frequencies of welch: rfftfreq(nfft, 1/fs), nfft // 2 + 1 of them
WelchFrequencies(T, nperseg) ==
    LET n == WelchNperseg(T, nperseg)
    IN  [k \in 1..(n \div 2 + 1) |-> Rat((k - 1) * fs, n)]

\* s[:-1]
DropLast(s) == SubSeq(s, 1, Len(s) - 1)

\* the element-wise product of two spectra of one feature, broadcast
BroadcastMul(a, b) ==
    [k \in 1..BroadcastLen(Len(a), Len(b)) |-> FMul(At(a, k), At(b, k))]

(* ------------------------- gradient importance ------------------------ *)

\* a regressor that squares the activation before weighting it
RegressorSquaring(zz, w) ==
    [b \in DOMAIN zz |-> [t \in DOMAIN zz[b] |->
        SumTo([f \in DOMAIN w |-> w[f] * zz[b][t][f] * zz[b][t][f]], Len(w))]]

\* y = self.regressor(z), nn.Conv1d(nfeatures, 1, kernel_size=1, bias=False)
\* (layers.Conv1D(1, 1, use_bias=False) of the other framework):
\* y[b][t] = sum_f w[f] * z[b][t][f], in the (batch, time, feature) layout
Regressor(zz, w) ==
    [b \in DOMAIN zz |-> [t \in DOMAIN zz[b] |->
        SumTo([f \in DOMAIN w |-> w[f] * zz[b][t][f]], Len(w))]]

\* the scalar the gradient is taken of: the sum of y over batch and time
SumY(y) ==
    SumTo([b \in DOMAIN y |-> SumTo(y[b], Len(y[b]))], Len(y))

\* zz with one more at position (b, t) of feature f
Nudged(zz, b, t, f) ==
    [zz EXCEPT ![b] = [@ EXCEPT ![t] = [@ EXCEPT ![f] = @ + 1]]]

\* tape.gradient(y_tf, z_tf), the order-1 gradient of sum(y) with respect to z,
\* taken from the forward pass: the change of sum(y) per unit change of the
\* entry z[b][t][f] (the derivative itself, sum(y) being of degree one in z)
Gradient(zz, w) ==
    CHOOSE g \in
        {[b \in DOMAIN zz |-> [t \in DOMAIN zz[b] |-> [f \in DOMAIN w |->
              SumY(Regressor(Nudged(zz, b, t, f), w)) - total]]] :
            total \in {SumY(Regressor(zz, w))}} : TRUE

\* the sum of v(b, t) over a (batch, time) grid
GridSum(g, f, nb, nt) ==
    SumTo([b \in 1..nb |-> SumTo([t \in 1..nt |-> g[b][t][f]], nt)], nb)

\* a variant that averages over the batch and time axes
AbsGradMean(g, F) ==
    LET nb == Len(g)
        nt == Len(g[1])
        a  == [b \in 1..nb |-> [t \in 1..nt |-> [f \in F |-> Abs(g[b][t][f])]]]
    IN  [f \in F |-> GridSum(a, f, nb, nt) \div (nb * nt)]

\* a variant that sums the signed gradient
SignedGradSum(g, F) ==
    [f \in F |-> GridSum(g, f, Len(g), Len(g[1]))]

\* np.sum(np.abs(gradients), axis=(0, 1))
AbsGradSum(g, F) ==
    LET nb == Len(g)
        nt == Len(g[1])
        a  == [b \in 1..nb |-> [t \in 1..nt |-> [f \in F |-> Abs(g[b][t][f])]]]
    IN  [f \in F |-> GridSum(a, f, nb, nt)]

(* create_importance_indices(model, data, order=1, nbatch, device) is the     *)
(* envelope_detector package's.  Modelled from the specification: per batch  *)
(* the order-1 gradient of sum(y) with respect to z, |gradient| summed over  *)
(* the batch and time axes and added to one running vector; then the        *)
(* feature indices ranked by that vector, largest first.                     *)

\* one batch of the scorer
ScoreBatch(acc, zz, w) ==
    LET s == AbsGradSum(Gradient(zz, w), DOMAIN w)
    IN  [f \in DOMAIN w |-> acc[f] + s[f]]

\* the (0-based) feature indices by descending g, equal entries by index
ImportanceOrder(g) ==
    LET before(i, j) == g[i] > g[j] \/ (g[i] = g[j] /\ i < j)
        rank(i)      == 1 + Cardinality({j \in DOMAIN g : before(j, i)})
    IN  [p \in 1..Len(g) |-> (CHOOSE i \in DOMAIN g : rank(i) = p) - 1]

SignalsOfLen(B, T) == [B -> [Channels -> [1..T -> Samples]]]

Signals(B) == UNION {SignalsOfLen(B, T) : T \in 1..MaxT}

NotCalled == [raised |-> "not called", value |-> <<>>]

CovIdle ==
    /\ unbiased = TRUE
    /\ mean = None
    /\ covariance_matrix = NotCalled

SpIdle ==
    /\ spatial_filters = <<>>
    /\ temporal_filters = <<>>
    /\ nbatch = 1
    /\ spatial_patterns = NotCalled
    /\ x_filtered = <<>>
    /\ spatial_results_data = NotCalled

SpectralIdle ==
    /\ x_unmixed = <<>>
    /\ nyquist = 2
    /\ welch_segments = <<>>
    /\ input_frequencies = <<>>
    /\ input_spectrum = <<>>
    /\ frequencies_filter = <<>>
    /\ temporal_filters_spectrum = <<>>
    /\ temporal_patterns_spectrum = <<>>
    /\ output_spectrum = <<>>
    /\ raised = "none"

ImportanceIdle ==
    /\ regressor = <<>>
    /\ dataset = [nexamples |-> 0, batch_size |-> 0, ntimes |-> 0]
    /\ pass = 1
    /\ processed = 0
    /\ gradients_pt = <<>>
    /\ importance_indices_pt = <<>>
    /\ returned_gradients = <<>>
    /\ z = <<>>
    /\ gradients_tf_ = <<>>
    /\ gradients_tf = <<>>

InitCov ==
    /\ pc = "covariance"
    /\ data \in Signals(CovBatch)
    /\ unbiased \in BOOLEAN
    /\ mean \in {None} \cup [Channels -> Samples]
    /\ covariance_matrix = NotCalled
    /\ SpIdle
    /\ SpectralIdle
    /\ ImportanceIdle

\* covariance_matrix = covariance(x, unbiased, mean)
CallCovariance ==
    /\ pc = "covariance"
    /\ covariance_matrix' = covariance(data, unbiased, mean)
    /\ pc' = "covariance_done"
    /\ UNCHANGED <<data, unbiased, mean, spVars, spectralVars, importanceVars>>

NextCov == CallCovariance

SpecCov == InitCov /\ [][NextCov]_vars

(* ----------------------- spatial-pattern cells ------------------------ *)

InitSp ==
    /\ pc = "spatial_patterns"
    /\ data \in UNION {SignalsOfLen(1..B, T) :
                          <<B, T>> \in {bt \in BatchSizes \X (1..MaxSamples) :
                                           bt[1] * bt[2] <= MaxSamples}}
    /\ spatial_filters \in SpatialFilterBanks
    /\ temporal_filters \in [Features -> Kernels]
    /\ nbatch \in {n \in 1..Len(data) : Len(data) % n = 0}
    /\ spatial_patterns = NotCalled
    /\ x_filtered = <<>>
    /\ spatial_results_data = NotCalled
    /\ CovIdle
    /\ SpectralIdle
    /\ ImportanceIdle

\* the cell that fills spatial_patterns from x, feature by feature
SpatialPatternLoop ==
    /\ pc = "spatial_patterns"
    /\ \E x \in {Rearrange(data)} :
           /\ spatial_patterns' = PatternLoop(x, temporal_filters, spatial_filters)
           /\ x_filtered' =
                  FilterChannels(x, temporal_filters[LastFeature(spatial_patterns')])
    /\ pc' = "create_spatial_patterns"
    /\ UNCHANGED <<data, covVars, spatial_filters, temporal_filters, nbatch,
                   spatial_results_data, spectralVars, importanceVars>>

\* spatial_results_data = create_spatial_patterns(data, ..., nbatch=nbatch)
CreateSpatialPatterns ==
    /\ pc = "create_spatial_patterns"
    /\ spatial_results_data' =
           create_spatial_patterns(data, spatial_filters, temporal_filters, nbatch)
    /\ pc' = "spatial_done"
    /\ UNCHANGED <<data, covVars, spatial_filters, temporal_filters, nbatch,
                   spatial_patterns, x_filtered, spectralVars, importanceVars>>

NextSp == SpatialPatternLoop \/ CreateSpatialPatterns

SpecSp == InitSp /\ [][NextSp]_vars

(* ---------------------------- spectral cell --------------------------- *)

InitSpectral ==
    /\ pc = "spectral"
    /\ data = <<>>
    /\ CovIdle
    /\ SpIdle
    /\ x_unmixed \in UNION {[1..T -> Samples] : T \in 2..MaxLen}
    /\ nyquist \in 2..MaxNfreq
    /\ welch_segments = <<>>
    /\ input_frequencies = <<>>
    /\ input_spectrum = <<>>
    /\ frequencies_filter = <<>>
    /\ temporal_filters_spectrum = <<>>
    /\ temporal_patterns_spectrum = <<>>
    /\ output_spectrum = <<>>
    /\ raised = "none"
    /\ ImportanceIdle

\* the cell from x_unmixed to output_spectrum.  The densities welch returns and
\* the amplitudes of the kernel's FFT are any values of the shapes the calls give.
SpectralCell ==
    /\ pc = "spectral"
    /\ \E psd \in [1..(WelchNperseg(Len(x_unmixed), nyquist) \div 2 + 1) -> FloatVals],
          half \in [1..(nyquist \div 2 + 1) -> FloatVals] :
          \E filt \in {spectrum(FftAmplitudes(half, nyquist), nyquist)} :
             /\ welch_segments' = WelchSegments(x_unmixed, nyquist)
             /\ input_frequencies' = DropLast(WelchFrequencies(Len(x_unmixed), nyquist))
             /\ input_spectrum' = DropLast(psd)
             /\ frequencies_filter' = filt.frequencies
             /\ temporal_filters_spectrum' = filt.amplitudes
             /\ IF BroadcastLen(Len(filt.amplitudes), Len(psd) - 1) < 0
                THEN \* the first product raises: the sizes do not broadcast
                     /\ raised' = "RuntimeError"
                     /\ temporal_patterns_spectrum' = <<>>
                     /\ output_spectrum' = <<>>
                ELSE /\ raised' = "none"
                     /\ temporal_patterns_spectrum' =
                            BroadcastMul(filt.amplitudes, DropLast(psd))
                     /\ output_spectrum' =
                            BroadcastMul([k \in DOMAIN filt.amplitudes |->
                                             Square(filt.amplitudes[k])],
                                         DropLast(psd))
    /\ pc' = "spectral_done"
    /\ UNCHANGED <<data, covVars, spVars, x_unmixed, nyquist, importanceVars>>

NextSpectral == SpectralCell

SpecSpectral == InitSpectral /\ [][NextSpectral]_vars

(* ------------------------- importance cells --------------------------- *)

Zeros(F) == [f \in F |-> 0]

\* the activations the pipeline may leave for a dataset of nb examples of nt
\* downsampled time steps: feature f scaled by v[f], varying over batch and time
Activations(nb, nt) ==
    {[b \in 1..nb |-> [t \in 1..nt |-> [f \in ScoredFeatures |-> v[f] * (b + t - 1)]]] :
        v \in [ScoredFeatures -> ActivationVals]}

InitImportance ==
    /\ pc = "create_importance_indices"
    /\ data = <<>>
    /\ CovIdle
    /\ SpIdle
    /\ SpectralIdle
    /\ regressor \in [ScoredFeatures -> Weights]
    /\ \E k \in 1..MaxBatches, n \in 1..MaxBatchSize, nt \in 1..MaxTimes :
          /\ dataset = [nexamples |-> k * n, batch_size |-> n, ntimes |-> nt]
          /\ z \in Activations(k * n, nt)
    /\ pass = 1
    /\ processed = 0
    /\ gradients_pt = Zeros(ScoredFeatures)
    /\ importance_indices_pt = <<>>
    /\ returned_gradients = <<>>
    /\ gradients_tf_ = <<>>
    /\ gradients_tf = <<>>

\* the scorer takes the next batch of the dataset
ProcessBatch ==
    /\ pc = "create_importance_indices"
    /\ processed < dataset.nexamples
    /\ gradients_pt' =
           ScoreBatch(gradients_pt,
                      SubSeq(z, processed + 1, processed + dataset.batch_size),
                      regressor)
    /\ processed' = processed + dataset.batch_size
    /\ UNCHANGED <<pc, data, covVars, spVars, spectralVars, regressor, dataset, pass,
                   importance_indices_pt, returned_gradients, z, gradients_tf_,
                   gradients_tf>>

\* the scorer returns (importance order, gradients); a second, independent pass
\* over the same dataset follows the first
ReturnImportance ==
    /\ pc = "create_importance_indices"
    /\ processed = dataset.nexamples
    /\ importance_indices_pt' = Append(importance_indices_pt, ImportanceOrder(gradients_pt))
    /\ returned_gradients' = Append(returned_gradients, gradients_pt)
    /\ IF pass = 1
       THEN /\ pass' = 2
            /\ processed' = 0
            /\ gradients_pt' = Zeros(ScoredFeatures)
            /\ pc' = pc
       ELSE /\ pc' = "gradients_tf"
            /\ UNCHANGED <<pass, processed, gradients_pt>>
    /\ UNCHANGED <<data, covVars, spVars, spectralVars, regressor, dataset, z,
                   gradients_tf_, gradients_tf>>

\* gradients_tf: the gradient over the whole dataset as one batch
SinglePass ==
    /\ pc = "gradients_tf"
    /\ gradients_tf_' = Gradient(z, regressor)
    /\ gradients_tf' = AbsGradSum(gradients_tf_', ScoredFeatures)
    /\ pc' = "importance_done"
    /\ UNCHANGED <<data, covVars, spVars, spectralVars, regressor, dataset, pass,
                   processed, gradients_pt, importance_indices_pt, returned_gradients,
                   z>>

NextImportance == ProcessBatch \/ ReturnImportance \/ SinglePass

SpecImportance == InitImportance /\ [][NextImportance]_vars

(* ============================== claims ================================ *)

\* True when covariance() has returned a matrix
Returned(out) == out.raised = "none"

(* ---- C2 ---- *)

\* C2: covariance(x, unbiased=True) on a signal whose time axis has length 1
\* raises at the division (Python's ZeroDivisionError, the specification's
\* DegenerateInputError) and returns nothing; no returned matrix has an entry
\* with a zero denominator (an infinity or a NaN).
C2_DegenerateRaises ==
    pc = "covariance_done" =>
        /\ (TimeLen(data) = 1 /\ unbiased) =>
               /\ covariance_matrix.raised = "ZeroDivisionError"
               /\ covariance_matrix.value = <<>>
        /\ Returned(covariance_matrix) =>
               \A b \in CovBatch : \A c, C \in Channels :
                   covariance_matrix.value[b][c][C].den # 0

C2_Witness ==
    /\ pc = "covariance_done"
    /\ TimeLen(data) = 1
    /\ unbiased
    /\ covariance_matrix.raised = "ZeroDivisionError"

(* ---- C8 ---- *)

\* sum over time of x_c * x_C of one batch element
SumProducts(xb, c, C) ==
    SumTo([t \in DOMAIN xb[c] |-> xb[c][t] * xb[C][t]], Len(xb[c]))

\* the textbook covariance entry of one batch element xb alone:
\* own mean:      (sum x_c x_C - S_c S_C / T) / (T - u)
\* supplied mean: (sum x_c x_C - m_c S_C - m_C S_c + T m_c m_C) / (T - u)
ElementCovariance(xb, u, m, c, C) ==
    LET T == Len(xb[c])
    IN  IF m = None
        THEN Rat(T * SumProducts(xb, c, C) - SumSeq(xb[c]) * SumSeq(xb[C]),
                 T * (T - u))
        ELSE Rat(SumProducts(xb, c, C) - m[c] * SumSeq(xb[C]) - m[C] * SumSeq(xb[c])
                     + T * m[c] * m[C],
                 T - u)

\* C8: for a batched signal, covariance() returns one (channel, channel)
\* matrix per batch element, each equal to (1/(T - unbiased)) Xc Xc^T of that
\* element's own data centred with the supplied mean, or else with that
\* element's own time mean: a function of that element alone, and symmetric.
C8_PerBatchElement ==
    (pc = "covariance_done" /\ Returned(covariance_matrix)) =>
        /\ DOMAIN covariance_matrix.value = CovBatch
        /\ \A b \in CovBatch : \A c, C \in Channels :
              /\ RatEq(covariance_matrix.value[b][c][C],
                       ElementCovariance(data[b], BoolInt(unbiased), mean, c, C))
              /\ RatEq(covariance_matrix.value[b][c][C],
                       covariance_matrix.value[b][C][c])

\* two batch elements with different data and different matrices, own means
C8_Witness ==
    /\ pc = "covariance_done"
    /\ Returned(covariance_matrix)
    /\ mean = None
    /\ TimeLen(data) = 2
    /\ data[1] # data[2]
    /\ ~ RatEq(covariance_matrix.value[1][1][2], covariance_matrix.value[2][1][2])

(* ---- C10 ---- *)

\* the unbiased covariance entry of a (channel, time) signal y over all its samples
PooledCovariance(y, c, C) ==
    LET N == Len(y[c])
    IN  Rat(N * SumProducts(y, c, C) - SumSeq(y[c]) * SumSeq(y[C]), N * (N - 1))

\* row f of the expected pattern: C_f times row f of the spatial filter, with
\* C_f the pooled covariance of x filtered with feature f's kernel alone
ExpectedRow(y, sf) ==
    [c \in Channels |->
        Rat(SumTo([C \in Channels |-> PooledCovariance(y, c, C).num * sf[C]],
                  Cardinality(Channels)),
            PooledCovariance(y, c, c).den)]

\* C10: row f of spatial_patterns is C_f times row f of the spatial filter,
\* C_f being one unbiased (channel, channel) covariance over all batch and time
\* samples of the signal filtered with feature f's kernel; the result has shape
\* (feature, channel) and row f reads no other feature's filters.
C10_PatternRows ==
    (pc \in {"create_spatial_patterns", "spatial_done"} /\ Returned(spatial_patterns)) =>
        /\ DOMAIN spatial_patterns.value = Features
        /\ \A f \in Features :
              \A y \in {FilterChannels(Rearrange(data), temporal_filters[f])} :
                 \A row \in {ExpectedRow(y, spatial_filters[f])} :
                    /\ DOMAIN spatial_patterns.value[f] = Channels
                    /\ \A c \in Channels :
                          RatEq(spatial_patterns.value[f][c], row[c])

\* two batch elements pooled, the two features with different filters and rows
C10_Witness ==
    /\ pc = "create_spatial_patterns"
    /\ Returned(spatial_patterns)
    /\ Len(data) = 2
    /\ temporal_filters[1] # temporal_filters[2]
    /\ spatial_filters[1] # spatial_filters[2]
    /\ \E c \in Channels :
          ~ RatEq(spatial_patterns.value[1][c], spatial_patterns.value[2][c])

(* ---- C1 ---- *)

\* row f of the chunked result equals row f of the one-pass result
SameRow(f) ==
    \A c \in Channels :
        RatEq(spatial_results_data.value[f][c], spatial_patterns.value[f][c])

BothReturned ==
    /\ pc = "spatial_done"
    /\ Returned(spatial_patterns)
    /\ Returned(spatial_results_data)

SpectraProduced == pc = "spectral_done" /\ raised = "none"

\* C4 as claimed: output_spectrum equals, element by element and exactly,
\* temporal_patterns_spectrum multiplied by the filter spectrum.
C4_OutputIsPatternsTimesFilter ==
    SpectraProduced =>
        \A k \in DOMAIN output_spectrum :
            output_spectrum[k] =
                FMul(temporal_patterns_spectrum[k], At(temporal_filters_spectrum, k))

\* C4 as amended: the two are the same real product filter^2 * input rounded
\* along two different orders, so they agree to within the rounding of two
\* floating-point products each: |a - b| <= 4 * 2^-MantissaBits * filter^2 * input.
C4_OutputIsPatternsTimesFilterRounded ==
    SpectraProduced =>
        \A k \in DOMAIN output_spectrum :
            LET f == At(temporal_filters_spectrum, k)
                i == At(input_spectrum, k)
                a == output_spectrum[k]
                b == FMul(temporal_patterns_spectrum[k], f)
            IN  /\ temporal_patterns_spectrum[k] = FMul(f, i)
                /\ Abs(a - b) * Pow2(MantissaBits) <= 4 * f * f * i

\* a bin where the two roundings differ
C4_Witness ==
    /\ SpectraProduced
    /\ \E k \in DOMAIN output_spectrum :
          output_spectrum[k] #
              FMul(temporal_patterns_spectrum[k], At(temporal_filters_spectrum, k))

(* ---- C5 ---- *)

\* both paths hold nfreq // 2 bins at the frequencies k * fs / nfreq, all below fs / 2
BinsAgree ==
    /\ Len(frequencies_filter) = nyquist \div 2
    /\ Len(temporal_filters_spectrum) = nyquist \div 2
    /\ Len(input_frequencies) = nyquist \div 2
    /\ Len(input_spectrum) = nyquist \div 2
    /\ \A k \in 1..(nyquist \div 2) :
          /\ RatEq(frequencies_filter[k], Rat((k - 1) * fs, nyquist))
          /\ RatEq(input_frequencies[k], Rat((k - 1) * fs, nyquist))
          /\ 2 * (k - 1) < nyquist

\* C5 as claimed: for every nfreq >= 2, odd or even, and every input signal,
\* the filter-spectrum path and the input-spectrum path return the same
\* nfreq // 2 bins at the frequencies k * fs / nfreq, the Nyquist bin excluded.
C5_BinsAgree ==
    pc = "spectral_done" => BinsAgree

\* C5 as amended: the same, for every input signal of at least nfreq samples
\* (welch cuts nperseg to the length of a shorter signal).
C5_BinsAgreeLongSignal ==
    (pc = "spectral_done" /\ Len(x_unmixed) >= nyquist) => BinsAgree

\* an odd nfreq on a long enough signal
C5_Witness ==
    /\ pc = "spectral_done"
    /\ nyquist = 3
    /\ Len(x_unmixed) >= nyquist
    /\ Len(input_spectrum) = 1
    /\ Len(temporal_filters_spectrum) = 1

(* ---- C6 ---- *)

\* C6: whenever the two spectra differ in their number of bins the cell stops
\* with an error and produces no derived spectrum.
C6_MismatchIsFatal ==
    (pc = "spectral_done" /\ Len(temporal_filters_spectrum) # Len(input_spectrum)) =>
        /\ raised # "none"
        /\ temporal_patterns_spectrum = <<>>
        /\ output_spectrum = <<>>

(* ---- C7 ---- *)

\* the segments that hold the (0-based) time sample t
SegmentsOf(t) ==
    {i \in DOMAIN welch_segments :
        /\ welch_segments[i].start <= t
        /\ t < welch_segments[i].start + Len(welch_segments[i].values)}

\* segment i is its own samples minus their own mean
OwnMeanDetrended(i) ==
    LET seg == welch_segments[i]
        n   == Len(seg.values)
        own == SumTo([j \in 1..n |-> x_unmixed[seg.start + j]], n)
    IN  \A j \in 1..n :
            RatEq(seg.values[j], Rat(n * x_unmixed[seg.start + j] - own, n))

\* C7 as claimed (for a series at least one segment long): the periodogram
\* segments have the length of the Nyquist-bin count and do not overlap (every
\* time sample belongs to at most one segment), and each segment is detrended
\* by its own mean.
C7_SegmentsDisjoint ==
    (pc = "spectral_done" /\ Len(x_unmixed) >= nyquist) =>
        /\ \A t \in 0..(Len(x_unmixed) - 1) : Cardinality(SegmentsOf(t)) <= 1
        /\ \A i \in DOMAIN welch_segments :
              /\ Len(welch_segments[i].values) = nyquist
              /\ OwnMeanDetrended(i)

\* C7 as amended: the segments have the length of the Nyquist-bin count (of the
\* series, when it is shorter), consecutive segments start nperseg - nperseg // 2
\* samples apart and so share nperseg // 2 samples, every time sample belongs to
\* at most two segments, and each segment is detrended by its own mean.
C7_SegmentsHalfOverlap ==
    pc = "spectral_done" =>
        LET n == IF nyquist > Len(x_unmixed) THEN Len(x_unmixed) ELSE nyquist
        IN  /\ \A t \in 0..(Len(x_unmixed) - 1) : Cardinality(SegmentsOf(t)) <= 2
            /\ \A i \in DOMAIN welch_segments :
                  /\ Len(welch_segments[i].values) = n
                  /\ welch_segments[i].start = (i - 1) * (n - n \div 2)
                  /\ welch_segments[i].start + n <= Len(x_unmixed)
                  /\ OwnMeanDetrended(i)
            /\ (Len(welch_segments) + 1) * (n - n \div 2) + n \div 2 > Len(x_unmixed)

\* a sample that two segments share, the segments with different means
C7_Witness ==
    /\ pc = "spectral_done"
    /\ Len(welch_segments) >= 2
    /\ \E t \in 0..(Len(x_unmixed) - 1) : Cardinality(SegmentsOf(t)) = 2
    /\ welch_segments[1].values # welch_segments[2].values

(* ---- C3 ---- *)

RanksDescending(order, g) ==
    /\ Len(order) = Cardinality(ScoredFeatures)
    /\ {order[p] : p \in DOMAIN order} = 0..(Cardinality(ScoredFeatures) - 1)
    /\ \A p \in 1..(Len(order) - 1) : g[order[p] + 1] >= g[order[p + 1] + 1]

ZeroPadded(s, before, after) ==
    [i \in 1..(before + Len(s) + after) |->
        IF i > before /\ i <= before + Len(s) THEN s[i - before] ELSE 0]

\* the kernel w slid over p at every position where it fits whole, no bias added
ValidCorrelate(p, w) ==
    [t \in 1..(Len(p) - Len(w) + 1) |->
        SumTo([j \in 1..Len(w) |-> w[j] * p[t + j - 1]], Len(w))]

\* s filtered with w after padding it by Len(w) - 1 zeros, `before` of them early
SamePadded(s, w, before) ==
    ValidCorrelate(ZeroPadded(s, before, Len(w) - 1 - before), w)

\* the larger and the smaller half of the total padding Len(w) - 1
LargerHalf(w) == (Len(w) - 1) - ((Len(w) - 1) \div 2)
SmallerHalf(w) == (Len(w) - 1) \div 2

\* the kernel of the iteration that left x_filtered
LastKernel == temporal_filters[LastFeature(spatial_patterns)]

LoopRan == pc \in {"create_spatial_patterns", "spatial_done"}

\* C11 as claimed: the filtered signal is as long as the input, every channel is
\* filtered with the same kernel and no bias, and an odd total padding puts its
\* extra sample on the early (left) side of the signal (stated of the loops
\* that ran to their end).
C11_ExtraPadEarly ==
    (LoopRan /\ Returned(spatial_patterns)) =>
        \A c \in Channels :
            /\ Len(x_filtered[c]) = Len(Rearrange(data)[c])
            /\ x_filtered[c] =
                  SamePadded(Rearrange(data)[c], LastKernel, LargerHalf(LastKernel))

\* C11 as amended: the filtered signal is as long as the input, every channel is
\* filtered with the same kernel and no bias, and an odd total padding puts its
\* extra sample on the late (right) side of the signal.
C11_ExtraPadLate ==
    LoopRan =>
        \A c \in Channels :
            /\ Len(x_filtered[c]) = Len(Rearrange(data)[c])
            /\ x_filtered[c] =
                  SamePadded(Rearrange(data)[c], LastKernel, SmallerHalf(LastKernel))

\* the loop ran with a kernel of even length on a signal on which the side of
\* the extra padding sample shows
C11_Witness ==
    /\ pc = "create_spatial_patterns"
    /\ Returned(spatial_patterns)
    /\ Len(LastKernel) % 2 = 0
    /\ \E c \in Channels :
          SamePadded(Rearrange(data)[c], LastKernel, LargerHalf(LastKernel))
              # SamePadded(Rearrange(data)[c], LastKernel, SmallerHalf(LastKernel))

(* ---- C12 ---- *)

\* the (batch, downsampled-time) positions of the dataset
Positions == dataset.nexamples * dataset.ntimes

\* C12: once the single-pass cell has run, the gradient of sum(y) with respect
\* to z is the regressor weight w[f] at every (batch, time) position of feature
\* f, and the importance of feature f is |w[f]| times the number of positions,
\* whatever the activation values z of the input signal are.
C12_GradientIsRegressorWeight ==
    pc = "importance_done" =>
        /\ DOMAIN gradients_tf_ = 1..dataset.nexamples
        /\ \A b \in DOMAIN gradients_tf_ :
              /\ DOMAIN gradients_tf_[b] = 1..dataset.ntimes
              /\ \A t \in DOMAIN gradients_tf_[b] : \A f \in ScoredFeatures :
                    gradients_tf_[b][t][f] = regressor[f]
        /\ \A f \in ScoredFeatures : gradients_tf[f] = Abs(regressor[f]) * Positions

\* the single-pass cell ran on several positions whose activations differ
\* between positions and between features, with weights of both signs
C12_Witness ==
    /\ pc = "importance_done"
    /\ Positions > 2
    /\ \E f, h \in ScoredFeatures : z[1][1][f] # z[1][1][h]
    /\ \E f \in ScoredFeatures : z[1][1][f] # z[dataset.nexamples][dataset.ntimes][f]
    /\ \E f, h \in ScoredFeatures : regressor[f] < 0 /\ regressor[h] > 0
    /\ \E f \in ScoredFeatures : gradients_tf[f] = 2 * Positions

====
